---- MODULE Spec2Model ----
(***************************************************************************)
(* quinine: MonoBox<T> and MonoArc<T>, the atomic, lock-free, write-once   *)
(* Option<Box<T>> and Option<Arc<T>> of src/src/box.rs and src/src/arc.rs. *)
(*                                                                         *)
(* A cell is one AtomicPtr (ptr_or_null).  Every atomic access of a method *)
(* is one step of the thread that runs it; the code a method runs between  *)
(* two atomic accesses touches only its own locals and is part of the step *)
(* of the access before it.  Methods that take `&self` interleave freely;  *)
(* methods that take `&mut self` or `self` start only when no other method *)
(* holds a borrow of the cell, which is what the borrow checker enforces.  *)
(***************************************************************************)
EXTENDS Integers, FiniteSets

\* ------------------------------------------------------------------ bounds
NumThreads == 2
NumCells == 2
MaxAddr == 2
MaxStrong == 3
MaxCount == 2

Threads == 1..NumThreads
Cells == 1..NumCells
Addrs == 1..MaxAddr

\* core::ptr::null_mut()
Null == 0

VARIABLES
    variant,      \* the type under check: "box" (MonoBox<T>) or "arc" (MonoArc<T>)
    kind,         \* kind[c]: "dead" (no such object), "box" (MonoBox), "arc" (MonoArc)
    ptr_or_null,  \* ptr_or_null[c]: the AtomicPtr of cell c
    heap,         \* heap[a]: the allocation at address a: [k, strong, v]
    owned,        \* owned[a]: the number of Box/Arc handles to a that callers hold
    pc,           \* pc[t]: where thread t is in the method it runs
    op,           \* op[t]: the method thread t runs
    self,         \* self[t]: the cell the method runs on
    arg,          \* arg[t]: the handle the caller passed (`value`), Null for None
    ptr,          \* ptr[t]: the local `ptr` of store, `new` of swap
    old,          \* old[t]: the pointer the method's load returned (`old`, `ptr`)
    rv,           \* rv[t]: the tag of the value the method returns
    out,          \* out[t]: the address of the handle or reference it returns
    dst,          \* dst[t]: the cell that clone constructs
    ub,           \* an access to a released allocation has happened (undefined behaviour)
    acquired,     \* acquired[t]: the method's load synchronised with the release that
                  \* published old[t]: the writes before that release happen before it
    accesses,     \* accesses[t]: the atomic accesses of ptr_or_null the method has made
    \* history variables (written, never read by the methods)
    before,       \* before[t]: ptr_or_null[self[t]] just before the method's first atomic access
    epoch0,       \* epoch0[c]: ptr_or_null[c] when the current epoch began (construction or swap)
    okEpoch,      \* okEpoch[c]: number of store that succeeded on c in the current epoch
    okLife,       \* okLife[c]: number of store that succeeded on c since its construction
    winner,       \* winner[c]: the address the successful store of the epoch published
    lastTake,     \* lastTake[c]: the last method that completed on c is take
    released      \* released[c]: the pointer in ptr_or_null[c] was written after the
                  \* initialisation of what it points to, by a write that publishes it

locals == <<pc, op, self, arg, ptr, old, rv, out, dst, before, acquired, accesses>>
memory == <<variant, kind, ptr_or_null, heap, owned, ub>>
history == <<epoch0, okEpoch, okLife, winner, lastTake, released>>
vars == <<variant, kind, ptr_or_null, heap, owned, ub, pc, op, self, arg, ptr, old, rv, out,
          dst, before, acquired, accesses, epoch0, okEpoch, okLife, winner, lastTake,
          released>>

\* ------------------------------------------------------------------ heap
Free == [k |-> "free", strong |-> 0, v |-> 0]

Min(a, b) == IF a < b THEN a ELSE b

Sat(n) == Min(n + 1, MaxCount)

\* The allocator: Box::new / Arc::new return a fresh allocation.
FreeAddrs == {a \in Addrs : heap[a].k = "free"}

NewAddr == CHOOSE a \in FreeAddrs : \A b \in FreeAddrs : a <= b

\* The code never looks inside T: the value a caller makes is named after the
\* allocation made for it, so that distinct allocations hold distinct values.
ValueFor(a) == a

\* Box::new(v) and Arc::new(v): one allocation, strong count 1.
Allocate(h, a, k, v) == [h EXCEPT ![a] = [k |-> k, strong |-> 1, v |-> v]]

\* Mutant: the drop of an Arc deallocates whatever the strong count is.
Release_eager(h, a) == [h EXCEPT ![a] = Free]

\* drop(Box<T>) deallocates; drop(Arc<T>) decrements the strong count and
\* deallocates when it reaches zero.
Release(h, a) ==
    IF h[a].k = "arc" /\ h[a].strong > 1
    THEN [h EXCEPT ![a].strong = @ - 1]
    ELSE [h EXCEPT ![a] = Free]

\* Mutant: the value is forgotten instead of dropped.
DropCell_leak(h, p) == h

\* core::mem::drop of an Option<Box<T>> / Option<Arc<T>>: None drops nothing.
DropCell(h, p) == IF p = Null THEN h ELSE Release(h, p)

\* Mutant: the raw pointer of the argument is lost.
IntoRaw_none(value) == Null

\* Option<Box<T>>::map(Box::into_raw).unwrap_or_else(null_mut): the raw
\* pointer of a handle is its address, of None the null pointer.
IntoRaw(value) == value

\* ------------------------------------------------------------------ borrows
\* A thread inside a method on c holds a borrow of c until the method returns
\* (for as_ref: until the returned reference is given up).
Borrowing(t, c) == pc[t] # "idle" /\ (self[t] = c \/ dst[t] = c)

\* `&self`: the cell lives, nobody holds `&mut`, and it is not the cell that
\* a clone is still to return.
ExclusiveOps == {"swap", "take", "into_inner", "from", "drop"}

Shared(c) ==
    /\ kind[c] # "dead"
    /\ \A u \in Threads : Borrowing(u, c) => op[u] \notin ExclusiveOps /\ dst[u] # c

\* Mutant: the exclusive methods take `&self`.
Exclusive_unchecked(c) == kind[c] # "dead"

\* `&mut self`, `self`: nobody else holds any borrow of the cell.
Exclusive(c) ==
    /\ kind[c] # "dead"
    /\ \A u \in Threads : ~Borrowing(u, c)

\* ------------------------------------------------------------------ init
\* The cell the threads share: the first one.  The other cells are the
\* clones of it, which their owner stores into, takes from and drops.
SharedCell == CHOOSE c \in Cells : \A d \in Cells : c <= d

\* An idle thread is in no method and refers to no cell.
NoCell == Null

TypeOK ==
    /\ kind \in [Cells -> {"dead", "box", "arc"}]
    /\ ptr_or_null \in [Cells -> Addrs \cup {Null}]
    /\ owned \in [Addrs -> 0..MaxStrong]
    /\ \A a \in Addrs : heap[a].k \in {"free", "box", "arc"}
    /\ \A a \in Addrs : heap[a].strong \in 0..MaxStrong

Init ==
    /\ variant \in {"box", "arc"}
    /\ kind = [c \in Cells |-> IF c = SharedCell THEN variant ELSE "dead"]
    /\ ptr_or_null = [c \in Cells |-> Null]
    /\ heap = [a \in Addrs |-> Free]
    /\ owned = [a \in Addrs |-> 0]
    /\ ub = FALSE
    /\ pc = [t \in Threads |-> "idle"]
    /\ op = [t \in Threads |-> "none"]
    /\ self = [t \in Threads |-> NoCell]
    /\ arg = [t \in Threads |-> Null]
    /\ ptr = [t \in Threads |-> Null]
    /\ old = [t \in Threads |-> Null]
    /\ rv = [t \in Threads |-> "none"]
    /\ out = [t \in Threads |-> Null]
    /\ dst = [t \in Threads |-> NoCell]
    /\ before = [t \in Threads |-> Null]
    /\ acquired = [t \in Threads |-> FALSE]
    /\ accesses = [t \in Threads |-> 0]
    /\ epoch0 = [c \in Cells |-> Null]
    /\ okEpoch = [c \in Cells |-> 0]
    /\ okLife = [c \in Cells |-> 0]
    /\ winner = [c \in Cells |-> Null]
    /\ lastTake = [c \in Cells |-> FALSE]
    /\ released = [c \in Cells |-> FALSE]

\* ------------------------------------------------------------------ atomics
\* core::sync::atomic::Ordering: a load with an acquire ordering that reads
\* what a write with a release ordering wrote synchronises with that write.
IsAcquire(order) == order \in {"Acquire", "AcqRel", "SeqCst"}

IsRelease(order) == order \in {"Release", "AcqRel", "SeqCst"}

\* Mutant: the successful compare_exchange of store is Relaxed.
store_success_relaxed == "Relaxed"

\* store: compare_exchange(.., Ordering::Release, Ordering::Relaxed)
store_success == "Release"

store_failure == "Relaxed"

\* The ordering of the load that method o starts with.
load_order(o) ==
    CASE o \in {"is_none", "is_some"} -> "Relaxed"
      [] o \in {"as_ref", "get", "clone"} -> "Acquire"
      [] o \in {"swap", "take", "into_inner", "from", "drop"} -> "Acquire"
      [] OTHER -> "none"

\* swap: self.ptr_or_null.store(new, Ordering::Release)
swap_store_order == "Release"

\* The atomic accesses of the first step of method o: store starts with
\* into_raw alone, Drop::drop is a whole swap, the others start with a load.
first_accesses(o) ==
    CASE o \in {"store", "store_value"} -> 0
      [] o = "drop" -> 2
      [] OTHER -> 1

\* AtomicPtr::load
Load(c) == ptr_or_null[c]

\* Mutant: the cells share one slot.
StorePtr_all(cells, c, new) == [d \in Cells |-> new]

\* Mutant: the store is left out.
StorePtr_lost(cells, c, new) == cells

\* AtomicPtr::store
StorePtr(cells, c, new) == [cells EXCEPT ![c] = new]

\* Mutant: an unconditional exchange, which never compares.
compare_exchange_blind(cells, c, current, new) ==
    [ok |-> TRUE, cells |-> [cells EXCEPT ![c] = new]]

\* Mutant: the comparison decides the result only, the write happens anyway.
compare_exchange_late(cells, c, current, new) ==
    [ok |-> cells[c] = current, cells |-> [cells EXCEPT ![c] = new]]

\* AtomicPtr::compare_exchange(current, new, ..): Ok iff the cell holds
\* `current`, and only then is `new` written.
compare_exchange(cells, c, current, new) ==
    IF cells[c] = current
    THEN [ok |-> TRUE, cells |-> [cells EXCEPT ![c] = new]]
    ELSE [ok |-> FALSE, cells |-> cells]

\* ------------------------------------------------------------------ history
BeginEpoch(c, p) ==
    /\ epoch0' = [epoch0 EXCEPT ![c] = p]
    /\ okEpoch' = [okEpoch EXCEPT ![c] = 0]
    /\ winner' = [winner EXCEPT ![c] = Null]

\* ------------------------------------------------------------------ callers
\* The handles a caller can pass to a cell of kind k.
Handles(k) == {a \in Addrs : owned[a] > 0 /\ heap[a].k = k}

OptionHandles(k) == {Null} \cup Handles(k)

\* Mutant: the caller keeps the handle it passed.
Give_keep(o, a) == o

Give(o, a) == IF a = Null THEN o ELSE [o EXCEPT ![a] = @ - 1]

Take(o, a) == IF a = Null THEN o ELSE [o EXCEPT ![a] = @ + 1]

\* Box::new(v) / Arc::new(v) in the caller.
handle_new(k) ==
    /\ ~ub
    /\ FreeAddrs # {}
    /\ \A u \in Threads : op[u] # "from"
    /\ heap' = Allocate(heap, NewAddr, k, ValueFor(NewAddr))
    /\ owned' = [owned EXCEPT ![NewAddr] = 1]
    /\ UNCHANGED <<variant, kind, ptr_or_null, ub, locals, history>>

\* drop(Box<T>) / drop(Arc<T>) in the caller.
handle_drop(a) ==
    /\ ~ub
    /\ owned[a] > 0
    /\ owned' = [owned EXCEPT ![a] = @ - 1]
    /\ heap' = Release(heap, a)
    /\ UNCHANGED <<variant, kind, ptr_or_null, ub, locals, history>>

\* ------------------------------------------------------------------ new
\* MonoBox::new(inner) / MonoArc::new(inner); empty() is new(None).
new(c, k, inner) ==
    /\ ~ub
    /\ kind[c] = "dead"
    /\ \A u \in Threads : ~Borrowing(u, c)
    /\ inner \in OptionHandles(k)
    /\ kind' = [kind EXCEPT ![c] = k]
    /\ ptr_or_null' = [ptr_or_null EXCEPT ![c] = IntoRaw(inner)]
    /\ owned' = Give(owned, inner)
    /\ BeginEpoch(c, IntoRaw(inner))
    /\ okLife' = [okLife EXCEPT ![c] = 0]
    /\ lastTake' = [lastTake EXCEPT ![c] = FALSE]
    /\ released' = [released EXCEPT ![c] = inner # Null]
    /\ UNCHANGED <<variant, heap, ub, locals>>

\* ------------------------------------------------------------------ calls
\* Thread t enters method o on cell c.
Enter(t, c, o, value, ld, r, nextpc) ==
    /\ pc' = [pc EXCEPT ![t] = nextpc]
    /\ op' = [op EXCEPT ![t] = o]
    /\ self' = [self EXCEPT ![t] = c]
    /\ arg' = [arg EXCEPT ![t] = value]
    /\ ptr' = [ptr EXCEPT ![t] = IntoRaw(value)]
    /\ old' = [old EXCEPT ![t] = ld]
    /\ rv' = [rv EXCEPT ![t] = r]
    /\ out' = [out EXCEPT ![t] = IF r = "Some" THEN ld ELSE Null]
    /\ before' = [before EXCEPT ![t] = ptr_or_null[c]]
    /\ acquired' = [acquired EXCEPT ![t] =
                        ld # Null /\ IsAcquire(load_order(o)) /\ released[c]]
    /\ accesses' = [accesses EXCEPT ![t] = first_accesses(o)]

\* ------------------------------------------------------------------ reads
\* is_none: one Relaxed load.
is_none_value(c) == Load(c) = Null

is_none(t, c) ==
    /\ ~ub
    /\ pc[t] = "idle"
    /\ Shared(c)
    /\ Enter(t, c, "is_none", Null, Load(c),
             IF is_none_value(c) THEN "true" ELSE "false", "ret")
    /\ UNCHANGED <<memory, dst, history>>

\* is_some: !self.is_none()
is_some(t, c) ==
    /\ ~ub
    /\ pc[t] = "idle"
    /\ Shared(c)
    /\ Enter(t, c, "is_some", Null, Load(c),
             IF ~is_none_value(c) THEN "true" ELSE "false", "ret")
    /\ UNCHANGED <<memory, dst, history>>

\* as_ref: one Acquire load, ptr.as_ref(); the reference lives until the
\* thread gives it up.
as_ref_value(c) == Load(c)

as_ref(t, c) ==
    /\ ~ub
    /\ pc[t] = "idle"
    /\ Shared(c)
    /\ Enter(t, c, "as_ref", Null, as_ref_value(c),
             IF as_ref_value(c) = Null THEN "None" ELSE "Some", "ret")
    /\ UNCHANGED <<memory, dst, history>>

\* ------------------------------------------------------------------ store
\* store(value): Box::into_raw(value) / Arc::into_raw(value).
store(t, c, value) ==
    /\ ~ub
    /\ pc[t] = "idle"
    /\ Shared(c)
    /\ value \in Handles(kind[c])
    /\ owned' = Give(owned, value)
    /\ Enter(t, c, "store", value, Null, "none", "store_cas")
    /\ UNCHANGED <<variant, kind, ptr_or_null, heap, ub, dst, history>>

\* store_value(value): self.store(Box::new(value)) / self.store(Arc::new(value)).
store_value(t, c) ==
    /\ ~ub
    /\ pc[t] = "idle"
    /\ Shared(c)
    /\ FreeAddrs # {}
    /\ heap' = Allocate(heap, NewAddr, kind[c], ValueFor(NewAddr))
    /\ Enter(t, c, "store_value", NewAddr, Null, "none", "store_cas")
    /\ UNCHANGED <<variant, kind, ptr_or_null, owned, ub, dst, history>>

\* Mutant: the arguments of compare_exchange in the wrong order.
store_compare_exchange_swapped(cells, c, p) == compare_exchange(cells, c, p, Null)

\* Mutant: expects whatever the cell holds, so that it always succeeds.
store_compare_exchange_any(cells, c, p) == compare_exchange(cells, c, cells[c], p)

\* store: compare_exchange(null_mut(), ptr, Release, Relaxed)
store_compare_exchange(cells, c, p) == compare_exchange(cells, c, Null, p)

\* Mutant: the rejected value is not handed back.
store_result_forget(ok, p) ==
    IF ok THEN [rv |-> "Ok", out |-> Null] ELSE [rv |-> "Err", out |-> Null]

\* Mutant: the arms of the match exchanged.
store_result_swapped(ok, p) ==
    IF ok THEN [rv |-> "Err", out |-> p] ELSE [rv |-> "Ok", out |-> Null]

\* store: Ok(_) => Ok(()), Err(_) => Err(unsafe { Box::from_raw(ptr) })
store_result(ok, p) ==
    IF ok THEN [rv |-> "Ok", out |-> Null] ELSE [rv |-> "Err", out |-> p]

\* Mutant: the result of the store is ignored.
store_value_result_always(r) == [rv |-> "true", out |-> Null]

\* store_value: self.store(..).is_ok(); the Err value is dropped.
store_value_result(r) ==
    [rv |-> IF r.rv = "Ok" THEN "true" ELSE "false", out |-> Null]

\* Mutant: a compare_exchange_weak in a loop, which fails and is tried again.
store_cas_retry(t) ==
    /\ ~ub
    /\ pc[t] = "store_cas"
    /\ accesses[t] < MaxStrong
    /\ accesses' = [accesses EXCEPT ![t] = @ + 1]
    /\ UNCHANGED <<memory, pc, op, self, arg, ptr, old, rv, out, dst, before, acquired, history>>

\* The compare_exchange of store and what store, then store_value, do with
\* its result.
store_cas(t) ==
    LET c == self[t]
        cas == store_compare_exchange(ptr_or_null, c, ptr[t])
        r == store_result(cas.ok, ptr[t])
        ok == r.rv = "Ok"
    IN  /\ ~ub
        /\ pc[t] = "store_cas"
        /\ ptr_or_null' = cas.cells
        /\ before' = [before EXCEPT ![t] = ptr_or_null[c]]
        /\ pc' = [pc EXCEPT ![t] = "ret"]
        /\ IF op[t] = "store"
           THEN /\ rv' = [rv EXCEPT ![t] = r.rv]
                /\ out' = [out EXCEPT ![t] = r.out]
                /\ heap' = heap
           ELSE /\ rv' = [rv EXCEPT ![t] = store_value_result(r).rv]
                /\ out' = [out EXCEPT ![t] = store_value_result(r).out]
                /\ heap' = DropCell(heap, r.out)
        /\ okEpoch' = [okEpoch EXCEPT ![c] = IF ok THEN Sat(@) ELSE @]
        /\ okLife' = [okLife EXCEPT ![c] = IF ok THEN Sat(@) ELSE @]
        /\ winner' = [winner EXCEPT ![c] = IF ok THEN ptr[t] ELSE @]
        /\ released' = [released EXCEPT ![c] = IF cas.ok THEN IsRelease(store_success) ELSE @]
        /\ acquired' = [acquired EXCEPT ![t] =
                            ~cas.ok /\ IsAcquire(store_failure) /\ released[c]]
        /\ accesses' = [accesses EXCEPT ![t] = @ + 1]
        /\ UNCHANGED <<variant, kind, owned, ub, op, self, arg, ptr, old, dst, epoch0, lastTake>>

\* ------------------------------------------------------------------ get, clone
\* The increments that have loaded address a and not yet run.
Pending(a) == Cardinality({u \in Threads : pc[u] \in {"get_inc", "clone_inc"} /\ old[u] = a})

Room(c) == Load(c) # Null => heap[Load(c)].strong + Pending(Load(c)) < MaxStrong

\* Mutant: the strong count is not incremented.
increment_strong_count_none(h, a) == h

\* Arc::increment_strong_count(ptr): undefined when the allocation is gone.
increment_strong_count(h, a) == [h EXCEPT ![a].strong = @ + 1]

\* MonoArc::get: the Acquire load.
get(t, c) ==
    /\ ~ub
    /\ pc[t] = "idle"
    /\ Shared(c)
    /\ kind[c] = "arc"
    /\ Room(c)
    /\ Enter(t, c, "get", Null, Load(c), "none",
             IF Load(c) = Null THEN "ret" ELSE "get_inc")
    /\ UNCHANGED <<memory, dst, history>>

\* MonoArc::get: increment_strong_count(ptr); Arc::from_raw(ptr).
get_inc(t) ==
    /\ ~ub
    /\ pc[t] = "get_inc"
    /\ IF heap[old[t]].k = "arc"
       THEN heap' = increment_strong_count(heap, old[t]) /\ ub' = ub
       ELSE heap' = heap /\ ub' = TRUE
    /\ pc' = [pc EXCEPT ![t] = "ret"]
    /\ rv' = [rv EXCEPT ![t] = "Some"]
    /\ out' = [out EXCEPT ![t] = old[t]]
    /\ UNCHANGED <<variant, kind, ptr_or_null, owned, op, self, arg, ptr, old, dst, before,
                   acquired, accesses, history>>

\* A place for the cell that clone returns.
DeadCells == {d \in Cells : kind[d] = "dead" /\ \A u \in Threads : ~Borrowing(u, d)}

NewCell == CHOOSE d \in DeadCells : \A e \in DeadCells : d <= e

\* Clone for MonoArc: the Acquire load.
clone(t, c) ==
    /\ ~ub
    /\ pc[t] = "idle"
    /\ Shared(c)
    /\ kind[c] = "arc"
    /\ Room(c)
    /\ DeadCells # {}
    /\ dst' = [dst EXCEPT ![t] = NewCell]
    /\ Enter(t, c, "clone", Null, Load(c), "none", "clone_inc")
    /\ UNCHANGED <<memory, history>>

\* Clone for MonoArc: the increment when ptr is not null, then the new cell.
clone_inc(t) ==
    LET d == dst[t]
    IN  /\ ~ub
        /\ pc[t] = "clone_inc"
        /\ IF old[t] = Null
           THEN heap' = heap /\ ub' = ub
           ELSE IF heap[old[t]].k = "arc"
           THEN heap' = increment_strong_count(heap, old[t]) /\ ub' = ub
           ELSE heap' = heap /\ ub' = TRUE
        /\ kind' = [kind EXCEPT ![d] = "arc"]
        /\ ptr_or_null' = [ptr_or_null EXCEPT ![d] = old[t]]
        /\ BeginEpoch(d, old[t])
        /\ okLife' = [okLife EXCEPT ![d] = 0]
        /\ lastTake' = [lastTake EXCEPT ![d] = FALSE]
        /\ pc' = [pc EXCEPT ![t] = "ret"]
        /\ rv' = [rv EXCEPT ![t] = "cell"]
        /\ released' = [released EXCEPT ![d] = acquired[t]]
        /\ UNCHANGED <<variant, owned, op, self, arg, ptr, old, out, dst, before, acquired,
                       accesses>>

\* ------------------------------------------------------------------ swap
\* swap(value): into_raw of the argument and the Acquire load of `old`.
swap_load(t, c, o, value) ==
    /\ ~ub
    /\ pc[t] = "idle"
    /\ Exclusive(c)
    /\ value \in OptionHandles(kind[c])
    /\ owned' = Give(owned, value)
    /\ Enter(t, c, o, value, Load(c), "none", "swap_store")
    /\ UNCHANGED <<variant, kind, ptr_or_null, heap, ub, dst, history>>

swap(t, c, value) == swap_load(t, c, "swap", value)

\* Mutant: take swaps a value in instead of None.
take_keep(t, c) == \E value \in Handles(kind[c]) : swap_load(t, c, "take", value)

\* take: self.swap(None)
take(t, c) == swap_load(t, c, "take", Null)

\* into_inner(mut self): self.take()
into_inner(t, c) == swap_load(t, c, "into_inner", Null)

\* From<MonoBox<T>> for MonoArc<T>: mono.into_inner(); the Arc that
\* Into::into makes needs an allocation.
from(t, c) ==
    /\ variant = "box"
    /\ FreeAddrs # {}
    /\ swap_load(t, c, "from", Null)

\* swap: the Release store of `new`, then Some(from_raw(old)) or None.
\* into_inner owns `self`, which is dropped when it returns.
swap_store(t) ==
    LET c == self[t]
        cells == StorePtr(ptr_or_null, c, ptr[t])
        consumed == op[t] \in {"into_inner", "from"}
    IN  /\ ~ub
        /\ pc[t] = "swap_store"
        /\ rv' = [rv EXCEPT ![t] = IF old[t] = Null THEN "None" ELSE "Some"]
        /\ out' = [out EXCEPT ![t] = old[t]]
        /\ pc' = [pc EXCEPT ![t] = IF op[t] = "from" THEN "from_new" ELSE "ret"]
        /\ ptr_or_null' = IF consumed THEN StorePtr(cells, c, Null) ELSE cells
        /\ heap' = IF consumed THEN DropCell(heap, cells[c]) ELSE heap
        /\ kind' = IF consumed THEN [kind EXCEPT ![c] = "dead"] ELSE kind
        /\ IF consumed
           THEN UNCHANGED <<epoch0, okEpoch, winner>>
           ELSE BeginEpoch(c, ptr[t])
        /\ released' = [released EXCEPT ![c] =
                            ~consumed /\ ptr[t] # Null /\ IsRelease(swap_store_order)]
        /\ accesses' = [accesses EXCEPT ![t] = IF consumed THEN @ + 3 ELSE @ + 1]
        /\ UNCHANGED <<variant, owned, ub, op, self, arg, ptr, old, dst, before, acquired,
                       okLife, lastTake>>

\* ------------------------------------------------------------------ from
\* Mutant: the Arc is made with a value of its own, not the Box's.
into_fresh(h, a, b) ==
    [h EXCEPT ![b] = [k |-> "arc", strong |-> 1, v |-> ValueFor(b)], ![a] = Free]

\* Arc<T>::from(Box<T>): a new allocation with strong count 1 that the value
\* is moved into; the storage of the Box is deallocated, the value not dropped.
into(h, a, b) ==
    [h EXCEPT ![b] = [k |-> "arc", strong |-> 1, v |-> h[a].v], ![a] = Free]

\* From<MonoBox<T>>: MonoArc::new(mono.into_inner().map(Into::into)).  The
\* MonoArc takes the place of the MonoBox it was made from.
from_new(t) ==
    LET c == self[t]
        inner == IF out[t] = Null THEN Null ELSE NewAddr
    IN  /\ ~ub
        /\ pc[t] = "from_new"
        /\ heap' = IF out[t] = Null THEN heap ELSE into(heap, out[t], NewAddr)
        /\ variant' = "arc"
        /\ kind' = [kind EXCEPT ![c] = "arc"]
        /\ ptr_or_null' = [ptr_or_null EXCEPT ![c] = IntoRaw(inner)]
        /\ BeginEpoch(c, IntoRaw(inner))
        /\ okLife' = [okLife EXCEPT ![c] = 0]
        /\ lastTake' = [lastTake EXCEPT ![c] = FALSE]
        /\ pc' = [pc EXCEPT ![t] = "ret"]
        /\ rv' = [rv EXCEPT ![t] = "cell"]
        /\ dst' = [dst EXCEPT ![t] = c]
        /\ released' = [released EXCEPT ![c] = inner # Null]
        /\ UNCHANGED <<owned, ub, op, self, arg, ptr, old, out, before, acquired, accesses>>

\* ------------------------------------------------------------------ drop
\* The cell goes out of scope: Drop::drop.  Nothing else can hold the cell.
drop(t, c) ==
    /\ ~ub
    /\ pc[t] = "idle"
    /\ Exclusive(c)
    /\ Enter(t, c, "drop", Null, Load(c), "none", "ret")
    /\ ptr_or_null' = StorePtr(ptr_or_null, c, Null)
    /\ heap' = DropCell(heap, Load(c))
    /\ kind' = [kind EXCEPT ![c] = "dead"]
    /\ BeginEpoch(c, Null)
    /\ okLife' = [okLife EXCEPT ![c] = 0]
    /\ lastTake' = [lastTake EXCEPT ![c] = FALSE]
    /\ released' = [released EXCEPT ![c] = FALSE]
    /\ UNCHANGED <<variant, owned, ub, dst>>

\* ------------------------------------------------------------------ return
\* The methods that hand an owned handle back to the caller.
ReturnsHandle == {"store", "swap", "take", "into_inner", "get"}

\* The method returns: the caller owns what it returns, the borrow ends.
ret(t) ==
    /\ ~ub
    /\ pc[t] = "ret"
    /\ owned' = IF op[t] \in ReturnsHandle THEN Take(owned, out[t]) ELSE owned
    /\ lastTake' = [c \in Cells |->
                      IF c = self[t] THEN op[t] = "take" /\ kind[c] # "dead" ELSE lastTake[c]]
    /\ pc' = [pc EXCEPT ![t] = "idle"]
    /\ op' = [op EXCEPT ![t] = "none"]
    /\ self' = [self EXCEPT ![t] = NoCell]
    /\ arg' = [arg EXCEPT ![t] = Null]
    /\ ptr' = [ptr EXCEPT ![t] = Null]
    /\ old' = [old EXCEPT ![t] = Null]
    /\ rv' = [rv EXCEPT ![t] = "none"]
    /\ out' = [out EXCEPT ![t] = Null]
    /\ dst' = [dst EXCEPT ![t] = NoCell]
    /\ before' = [before EXCEPT ![t] = Null]
    /\ acquired' = [acquired EXCEPT ![t] = FALSE]
    /\ accesses' = [accesses EXCEPT ![t] = 0]
    /\ IF op[t] = "into_inner"
       THEN BeginEpoch(self[t], Null) /\ okLife' = [okLife EXCEPT ![self[t]] = 0]
       ELSE UNCHANGED <<epoch0, okEpoch, okLife, winner>>
    /\ UNCHANGED <<variant, kind, ptr_or_null, heap, ub, released>>

\* ------------------------------------------------------------------ next
Callers ==
    \/ handle_new(variant)
    \/ \E a \in Addrs : handle_drop(a)
    \/ \E inner \in Addrs \cup {Null} : new(SharedCell, variant, inner)

Calls(t, c) ==
    \/ is_none(t, c)
    \/ is_some(t, c)
    \/ as_ref(t, c)
    \/ \E value \in Addrs : store(t, c, value)
    \/ store_value(t, c)
    \/ get(t, c)
    \/ clone(t, c)
    \/ \E value \in Addrs \cup {Null} : swap(t, c, value)
    \/ take(t, c)
    \/ into_inner(t, c)
    \/ from(t, c)

\* What the owner of a clone does with it, besides dropping it.
CloneCalls(t, c) ==
    \/ store_value(t, c)
    \/ take(t, c)

Steps(t) ==
    \/ store_cas(t)
    \/ get_inc(t)
    \/ clone_inc(t)
    \/ swap_store(t)
    \/ from_new(t)
    \/ ret(t)

Next ==
    \/ Callers
    \/ \E t \in Threads : Calls(t, SharedCell)
    \/ \E t \in Threads, c \in Cells \ {SharedCell} : CloneCalls(t, c)
    \/ \E t \in Threads, c \in Cells : drop(t, c)
    \/ \E t \in Threads : Steps(t)

Spec == Init /\ [][Next]_vars

\* ------------------------------------------------------------------ claims
ReadOps == {"is_none", "is_some", "as_ref", "get", "clone"}

\* Thread t takes the step.
Moves(t) == pc'[t] # pc[t]

\* Thread t runs the compare_exchange of its store.
CasStep(t) == pc[t] = "store_cas" /\ pc'[t] = "ret"

\* Thread t runs the load of a reading method.
ReadStep(t) == pc[t] = "idle" /\ pc'[t] # "idle" /\ op'[t] \in ReadOps

\* The step belongs to a method that holds cell c exclusively.
ExclusiveStep(c) ==
    \E t \in Threads :
        /\ Moves(t)
        /\ \/ self[t] = c /\ op[t] \in ExclusiveOps
           \/ self'[t] = c /\ op'[t] \in ExclusiveOps

\* Method o of thread t has run and is about to return.
Returned(t, o) == pc[t] = "ret" /\ op[t] = o

Success(r) == r \in {"Ok", "true"}

\* What the current epoch put in cell c: what it began with, or else what the
\* successful store published.
Content(c) == IF epoch0[c] # Null THEN epoch0[c] ELSE winner[c]

\* C1: of the store calls that race on a cell that began empty, with no swap or
\* take in between, exactly one returns Ok (never two, and the first
\* compare_exchange to run succeeds), and every as_ref/get whose load runs
\* after the winner's compare_exchange returns the winner's allocation, live,
\* whose value no step changes.
C1_SingleWinner ==
    /\ [](\A c \in Cells : okEpoch[c] <= 1)
    /\ [][\A t \in Threads :
            CasStep(t) /\ epoch0[self[t]] = Null /\ okEpoch[self[t]] = 0
                => Success(rv'[t])]_vars
    /\ [][\A t \in Threads :
            ReadStep(t) /\ op'[t] \in {"as_ref", "get"} /\ winner[self'[t]] # Null
                => /\ old'[t] = winner[self'[t]]
                   /\ heap[winner[self'[t]]].k = variant]_vars
    /\ [][\A c \in Cells :
            winner[c] # Null /\ winner'[c] = winner[c]
                => heap'[winner[c]].v = heap[winner[c]].v]_vars

\* Two stores of distinct values have raced on an empty cell: one is about to
\* return Ok and the other Err.
C1_Witness ==
    \E t, u \in Threads :
        /\ Returned(t, "store") /\ rv[t] = "Ok"
        /\ Returned(u, "store") /\ rv[u] = "Err"
        /\ self[t] = self[u] /\ epoch0[self[t]] = Null /\ arg[t] # arg[u]

\* C2 as stated: a store that returns Err returns the value passed in, which
\* is not released, is in no slot, and of which the cell owns no share.
C2_Original ==
    \A t \in Threads :
        Returned(t, "store") /\ rv[t] = "Err"
            => /\ out[t] = arg[t]
               /\ heap[out[t]].k = variant
               /\ \A c \in Cells : ptr_or_null[c] # out[t]
               /\ variant = "box" => heap[out[t]].strong = 1

\* C2 amended: a store that returns Err returns the handle passed in, not
\* released and with the strong count the call found; the call has not
\* changed the slot, so the slot holds that allocation only if it did before
\* the call (a MonoArc given a handle to what it holds already); for MonoBox
\* it is in no slot and the returned Box is its only owner.  No step of a store
\* touches the heap, and the return gives the handle to the caller.
C2_RejectedValueReturned ==
    /\ [](\A t \in Threads :
            Returned(t, "store") /\ rv[t] = "Err"
                => /\ out[t] = arg[t] /\ out[t] # Null
                   /\ heap[out[t]].k = variant
                   /\ ptr_or_null[self[t]] = before[t]
                   /\ ptr_or_null[self[t]] = out[t] => variant = "arc"
                   /\ variant = "box"
                        => /\ \A c \in Cells : ptr_or_null[c] # out[t]
                           /\ owned[out[t]] = 0
                           /\ \A u \in Threads \ {t} :
                                /\ op[u] \in {"store", "swap"} => arg[u] # out[t]
                                /\ pc[u] = "ret" /\ op[u] \in ReturnsHandle
                                    => out[u] # out[t])
    /\ [][\A t \in Threads :
            Moves(t) /\ (op[t] = "store" \/ op'[t] = "store") => heap' = heap]_vars
    /\ [][\A t \in Threads :
            Returned(t, "store") /\ rv[t] = "Err" /\ Moves(t)
                => owned'[out[t]] = owned[out[t]] + 1]_vars

\* A MonoArc has rejected a handle to the allocation it holds.
C2_Witness ==
    \E t \in Threads :
        /\ Returned(t, "store") /\ rv[t] = "Err"
        /\ ptr_or_null[self[t]] = out[t]

\* C3: a step that is not part of swap, take, into_inner or drop never takes a
\* slot from non-null to null, and while some thread holds a non-null result
\* of a load of the cell, no load of that cell by another thread returns null.
C3_Monotonic ==
    [][/\ \A c \in Cells :
            ptr_or_null[c] # Null /\ ~ExclusiveStep(c) => ptr_or_null'[c] # Null
       /\ \A t, u \in Threads :
            /\ ReadStep(t) /\ u # t
            /\ pc[u] # "idle" /\ op[u] \in ReadOps
            /\ self[u] = self'[t] /\ old[u] # Null
            => old'[t] # Null]_vars

\* Two threads have read the same populated cell, after a store populated it.
C3_Witness ==
    \E t, u \in Threads :
        /\ t # u /\ self[t] = self[u]
        /\ pc[t] = "ret" /\ op[t] \in {"is_none", "is_some"} /\ old[t] # Null
        /\ pc[u] = "ret" /\ op[u] = "as_ref" /\ old[u] # Null
        /\ okEpoch[self[t]] = 1

\* C4: a step that is not part of swap, take, into_inner or drop leaves a
\* non-null slot and the value it points to as they are; an as_ref or get of
\* a populated cell loads that address, and the reference or handle it
\* returns is the slot's address for as long as the method holds the cell.
C4_Frozen ==
    /\ [][/\ \A c \in Cells :
                ptr_or_null[c] # Null /\ ~ExclusiveStep(c)
                    => /\ ptr_or_null'[c] = ptr_or_null[c]
                       /\ heap'[ptr_or_null[c]].k = heap[ptr_or_null[c]].k
                       /\ heap'[ptr_or_null[c]].v = heap[ptr_or_null[c]].v
           /\ \A t \in Threads :
                ReadStep(t) /\ op'[t] \in {"as_ref", "get"} /\ ptr_or_null[self'[t]] # Null
                    => old'[t] = ptr_or_null[self'[t]]]_vars
    /\ [](\A t \in Threads :
            pc[t] = "ret" /\ op[t] \in {"as_ref", "get"}
                => /\ out[t] = old[t]
                   /\ old[t] # Null => ptr_or_null[self[t]] = old[t])

\* A reader holds a reference into a populated cell on which a store_value
\* has just failed.
C4_Witness ==
    \E t, u \in Threads :
        /\ Returned(t, "as_ref") /\ out[t] # Null
        /\ Returned(u, "store_value") /\ rv[u] = "false"
        /\ self[t] = self[u]

\* C5 as stated: over the whole life of a cell, swap and take included, at
\* most one store returns Ok.
C5_Original == \A c \in Cells : okLife[c] <= 1

\* C5 amended: at most one store returns Ok between two exclusive writes of
\* the slot (construction, swap, take), and none when that epoch began with a
\* value; after a take the cell is empty and a store succeeds again.
C5_WriteOncePerEpoch ==
    \A c \in Cells :
        /\ okEpoch[c] <= 1
        /\ epoch0[c] # Null => okEpoch[c] = 0
        /\ okEpoch[c] = 1 /\ kind[c] # "dead" => ptr_or_null[c] = winner[c]

\* A second store has succeeded in the life of a cell, the first of its epoch.
C5_Witness == \E c \in Cells : okLife[c] = 2 /\ okEpoch[c] = 1

\* C6: a store returns Ok exactly when the slot was null at its
\* compare_exchange, and then the slot holds the address of the value stored;
\* when the slot was not null it returns Err.
C6_StoreOkIffNull ==
    \A t \in Threads :
        Returned(t, "store")
            => /\ rv[t] \in {"Ok", "Err"}
               /\ rv[t] = "Ok" <=> before[t] = Null
               /\ rv[t] = "Ok" => ptr_or_null[self[t]] = arg[t] /\ arg[t] # Null
               /\ before[t] # Null => rv[t] = "Err"

\* A store found the slot null and is about to return Ok.
C6_Witness ==
    \E t \in Threads : Returned(t, "store") /\ rv[t] = "Ok" /\ before[t] = Null

\* C7: a store or store_value that fails leaves the cell as its
\* compare_exchange found it: the failing compare_exchange changes neither
\* the slot nor the value the slot points to, and the slot still holds that
\* address when the call returns.
C7_FailedStoreFrame ==
    /\ [](\A t \in Threads :
            pc[t] = "ret" /\ op[t] \in {"store", "store_value"} /\ ~Success(rv[t])
                => ptr_or_null[self[t]] = before[t] /\ before[t] # Null)
    /\ [][\A t \in Threads :
            CasStep(t) /\ ~Success(rv'[t])
                => /\ ptr_or_null' = ptr_or_null
                   /\ heap'[ptr_or_null[self[t]]] = heap[ptr_or_null[self[t]]]]_vars

\* A store_value has failed on a populated cell.
C7_Witness ==
    \E t \in Threads :
        Returned(t, "store_value") /\ rv[t] = "false" /\ ptr_or_null[self[t]] # Null

\* C8: nothing overlaps a swap (between its load and its store the slot holds
\* what it loaded, which is what new, store or the last swap put there); it
\* returns that content, None when it was null, and leaves the cell holding
\* exactly the argument.
C8_SwapCorrect ==
    \A t \in Threads :
        /\ pc[t] = "swap_store"
            => /\ ptr_or_null[self[t]] = old[t]
               /\ old[t] = Content(self[t])
        /\ Returned(t, "swap")
            => /\ out[t] = old[t] /\ old[t] = before[t]
               /\ ptr_or_null[self[t]] = arg[t]
               /\ rv[t] = (IF before[t] = Null THEN "None" ELSE "Some")
               /\ out[t] # Null => heap[out[t]].k = variant
               /\ arg[t] # Null => heap[arg[t]].k = variant

\* A swap has replaced one value by another.
C8_Witness ==
    \E t \in Threads :
        Returned(t, "swap") /\ before[t] # Null /\ arg[t] # Null /\ arg[t] # before[t]

\* C9: take is swap(None): it returns what the cell held and leaves it empty
\* (is_none true, as_ref None); on an empty cell it returns None, and so does
\* a take that follows a take.
C9_TakeIsSwapNone ==
    \A t \in Threads :
        Returned(t, "take")
            => /\ arg[t] = Null
               /\ ptr_or_null[self[t]] = Null
               /\ is_none_value(self[t])
               /\ as_ref_value(self[t]) = Null
               /\ out[t] = before[t]
               /\ rv[t] = (IF before[t] = Null THEN "None" ELSE "Some")
               /\ lastTake[self[t]] => rv[t] = "None" /\ out[t] = Null

\* A take that follows a take is about to return.
C9_Witness ==
    \E t \in Threads : Returned(t, "take") /\ lastTake[self[t]]

\* C10: into_inner returns what the cell was made with, or what the store that
\* populated it published: the same allocation, not released and not changed
\* by the end of the cell, and None for an empty cell.
C10_RoundTrip ==
    /\ [](\A t \in Threads :
            Returned(t, "into_inner")
                => /\ out[t] = Content(self[t])
                   /\ rv[t] = (IF Content(self[t]) = Null THEN "None" ELSE "Some")
                   /\ kind[self[t]] = "dead"
                   /\ out[t] # Null => heap[out[t]].k = variant)
    /\ [][\A t \in Threads :
            pc[t] = "swap_store" /\ op[t] = "into_inner" /\ Moves(t) /\ old[t] # Null
                => heap'[old[t]] = heap[old[t]]]_vars

\* into_inner is about to return the value a cell was made with.
C10_Witness ==
    \E t \in Threads :
        /\ Returned(t, "into_inner")
        /\ epoch0[self[t]] # Null /\ out[t] = epoch0[self[t]]
        /\ okLife[self[t]] = 0

\* The step is the destruction of cell c by thread t.
DropStep(t, c) == pc[t] = "idle" /\ pc'[t] = "ret" /\ op'[t] = "drop" /\ self'[t] = c

\* Heap g is heap h with one release of the live allocation a: a Box is
\* deallocated, an Arc loses one strong reference and is deallocated with its
\* last one; no other allocation changes.
ReleasedOnce(h, g, a) ==
    /\ h[a].k # "free" /\ h[a].strong >= 1
    /\ \A b \in Addrs \ {a} : g[b] = h[b]
    /\ IF h[a].k = "box" \/ h[a].strong = 1
       THEN g[a] = Free
       ELSE g[a] = [h[a] EXCEPT !.strong = @ - 1]

\* C11: the destruction of a cell that holds a value releases that value
\* exactly once (a live allocation: deallocated for MonoBox, one strong
\* reference less for MonoArc) and nothing else; the destruction of an empty
\* cell leaves the heap as it is; into_inner and the end of the cell it
\* consumes release nothing, the value it returns is live, and the return
\* hands it to the caller, whose drop of the handle is its release.
C11_ReleaseOnce ==
    /\ [][\A t \in Threads, c \in Cells :
            DropStep(t, c)
                => /\ kind'[c] = "dead"
                   /\ IF ptr_or_null[c] = Null
                      THEN heap' = heap
                      ELSE /\ heap[ptr_or_null[c]].k = kind[c]
                           /\ ReleasedOnce(heap, heap', ptr_or_null[c])]_vars
    /\ [][\A t \in Threads :
            op[t] = "into_inner" /\ Moves(t) => heap' = heap]_vars
    /\ [](\A t \in Threads :
            Returned(t, "into_inner")
                => /\ kind[self[t]] = "dead"
                   /\ out[t] # Null => heap[out[t]].k # "free" /\ heap[out[t]].strong >= 1)
    /\ [][\A t \in Threads :
            Returned(t, "into_inner") /\ Moves(t) /\ out[t] # Null
                => owned'[out[t]] = owned[out[t]] + 1]_vars
    /\ [][\A a \in Addrs :
            owned'[a] < owned[a] /\ kind' = kind /\ (\A t \in Threads : pc'[t] = pc[t])
                => ReleasedOnce(heap, heap', a)]_vars

\* A cell that held a value has been destroyed and the value is deallocated.
C11_Witness ==
    \E t \in Threads :
        Returned(t, "drop") /\ before[t] # Null /\ heap[before[t]].k = "free"

\* Thread t's method holds an owned handle to a: moved in and not yet in the
\* slot, or taken out and not yet returned.
InFlight(t, a) ==
    \/ pc[t] \in {"store_cas", "swap_store"} /\ ptr[t] = a
    \/ pc[t] = "ret" /\ op[t] \in ReturnsHandle /\ out[t] = a
    \/ pc[t] = "from_new" /\ out[t] = a

\* The cells that hold a.
Holding(a) == {c \in Cells : kind[c] # "dead" /\ ptr_or_null[c] = a}

\* The number of owners of allocation a: handles of callers, cells, and
\* handles inside running methods.
Holders(a) ==
    owned[a] + Cardinality(Holding(a)) + Cardinality({t \in Threads : InFlight(t, a)})

\* C12: a get of a populated MonoArc returns a handle to the allocation in
\* the slot; an allocation is live exactly while it has an owner (a handle
\* or a cell), so the drop of one owner never deallocates what another still
\* holds; it is deallocated by the step that removes its last owner, and by
\* no other.
C12_SharedHandles ==
    /\ [](\A t \in Threads :
            Returned(t, "get")
                => /\ out[t] = old[t]
                   /\ out[t] # Null
                        => /\ out[t] = ptr_or_null[self[t]]
                           /\ heap[out[t]].k = "arc"
                           /\ heap[out[t]].v = heap[ptr_or_null[self[t]]].v)
    /\ [](\A a \in Addrs : heap[a].k # "free" <=> Holders(a) > 0)
    /\ [][\A a \in Addrs :
            heap[a].k = "arc"
                => /\ Holders(a) > 1 => heap'[a].k = "arc" /\ heap'[a].v = heap[a].v
                   /\ heap'[a].k = "free" => heap[a].strong = 1 /\ Holders(a) = 1]_vars

\* A cell has been destroyed and a handle a get made of its value is still
\* live, in no cell.
C12_Witness ==
    \E t \in Threads, a \in Addrs :
        /\ Returned(t, "drop") /\ before[t] = a
        /\ heap[a].k = "arc" /\ owned[a] > 0 /\ Holding(a) = {}

\* C13: a non-null slot of a live cell holds the address of an allocation of
\* the cell's kind that has not been released; the reference an as_ref
\* returned points to a live allocation, still in the slot, for as long as
\* the borrow lasts; a step that deallocates an allocation leaves it in no
\* slot, and it was in no slot of a cell the step did not write.
C13_PointerValid ==
    /\ [](\A c \in Cells :
            kind[c] # "dead" /\ ptr_or_null[c] # Null
                => /\ heap[ptr_or_null[c]].k = kind[c]
                   /\ heap[ptr_or_null[c]].strong >= 1)
    /\ [](\A t \in Threads :
            Returned(t, "as_ref") /\ out[t] # Null
                => /\ ptr_or_null[self[t]] = out[t]
                   /\ heap[out[t]].k = kind[self[t]]
                   /\ heap[out[t]].strong >= 1)
    /\ [][\A a \in Addrs :
            heap[a].k # "free" /\ heap'[a].k = "free"
                => \A c \in Cells :
                    /\ kind'[c] # "dead" => ptr_or_null'[c] # a
                    /\ kind[c] # "dead" /\ ptr_or_null[c] = a
                        => ExclusiveStep(c) \/ \E t \in Threads : DropStep(t, c)]_vars

\* A reference from as_ref to a stored value is held while a store_value
\* that failed has released the allocation it made.
C13_Witness ==
    \E t \in Threads :
        /\ Returned(t, "as_ref") /\ out[t] # Null
        /\ heap[out[t]].strong = 1 /\ okEpoch[self[t]] = 1
        /\ \E u \in Threads : Returned(u, "store_value") /\ rv[u] = "false"

\* C14: clone loads the source's slot and changes nothing by it; its second
\* step makes a new MonoArc whose slot holds the address loaded (null for an
\* empty source), adds exactly one to the strong count of that allocation
\* when it is not null and leaves the heap alone when it is, and leaves the
\* source's slot unchanged; the new cell holds that address when clone
\* returns.
C14_Clone ==
    /\ [][\A t \in Threads :
            ReadStep(t) /\ op'[t] = "clone"
                => /\ old'[t] = ptr_or_null[self'[t]]
                   /\ dst'[t] # self'[t] /\ kind[dst'[t]] = "dead"
                   /\ heap' = heap /\ ptr_or_null' = ptr_or_null /\ kind' = kind]_vars
    /\ [][\A t \in Threads :
            pc[t] = "clone_inc" /\ Moves(t)
                => /\ kind'[dst[t]] = "arc"
                   /\ ptr_or_null'[dst[t]] = old[t]
                   /\ \A c \in Cells \ {dst[t]} :
                        ptr_or_null'[c] = ptr_or_null[c] /\ kind'[c] = kind[c]
                   /\ IF old[t] = Null
                      THEN heap' = heap
                      ELSE /\ heap[old[t]].k = "arc"
                           /\ heap'[old[t]] =
                                [heap[old[t]] EXCEPT !.strong = heap[old[t]].strong + 1]
                           /\ \A b \in Addrs \ {old[t]} : heap'[b] = heap[b]]_vars
    /\ [](\A t \in Threads :
            Returned(t, "clone")
                => /\ rv[t] = "cell" /\ kind[dst[t]] = "arc"
                   /\ ptr_or_null[dst[t]] = old[t]
                   /\ old[t] # Null => ptr_or_null[self[t]] = old[t])

\* A clone of a populated cell is about to return: two cells hold the value.
C14_Witness ==
    \E t \in Threads :
        /\ Returned(t, "clone") /\ old[t] # Null
        /\ Holding(old[t]) = {self[t], dst[t]} /\ heap[old[t]].strong >= 2

\* C15: the conversion of a MonoBox into a MonoArc: taking the value out of
\* the MonoBox and consuming it releases nothing; an empty MonoBox gives an
\* empty MonoArc; a MonoBox that held V gives a MonoArc whose slot points to
\* a new Arc allocation with strong count 1 that holds V, the only owner of
\* which is the new cell, and the storage of the Box is given back without
\* V being dropped.
C15_FromMonoBox ==
    /\ [][\A t \in Threads :
            pc[t] = "swap_store" /\ op[t] = "from" /\ Moves(t)
                => /\ heap' = heap
                   /\ kind[self[t]] = "box" /\ kind'[self[t]] = "dead"
                   /\ out'[t] = ptr_or_null[self[t]]]_vars
    /\ [][\A t \in Threads :
            pc[t] = "from_new" /\ Moves(t)
                => /\ kind'[dst'[t]] = "arc"
                   /\ IF out[t] = Null
                      THEN ptr_or_null'[dst'[t]] = Null /\ heap' = heap
                      ELSE /\ heap[out[t]].k = "box"
                           /\ ptr_or_null'[dst'[t]] # Null
                           /\ heap[ptr_or_null'[dst'[t]]].k = "free"
                           /\ heap'[ptr_or_null'[dst'[t]]] =
                                [k |-> "arc", strong |-> 1, v |-> heap[out[t]].v]
                           /\ heap'[out[t]].k = "free"]_vars
    /\ [](\A t \in Threads :
            Returned(t, "from")
                => /\ kind[dst[t]] = "arc"
                   /\ ptr_or_null[dst[t]] = Null <=> old[t] = Null
                   /\ old[t] # Null
                        => /\ heap[ptr_or_null[dst[t]]].k = "arc"
                           /\ heap[ptr_or_null[dst[t]]].strong = 1
                           /\ Holders(ptr_or_null[dst[t]]) = 1
                           /\ Holding(ptr_or_null[dst[t]]) = {dst[t]})

\* A MonoBox that held a value has been converted.
C15_Witness ==
    \E t \in Threads :
        /\ Returned(t, "from") /\ old[t] # Null
        /\ heap[ptr_or_null[dst[t]]].k = "arc"

\* C16: the pointer in a non-null slot points to an initialised allocation
\* and was written by a publishing write (the Release compare_exchange of a
\* store, whose caller made the value before the call); an as_ref, get or
\* clone that has loaded a non-null pointer did so with an Acquire load that
\* synchronised with that write, so the initialisation of what it points to
\* happens before the method reads it.
C16_Publication ==
    /\ [](\A c \in Cells :
            kind[c] # "dead" /\ ptr_or_null[c] # Null
                => released[c] /\ heap[ptr_or_null[c]].k = kind[c])
    /\ [](\A t \in Threads :
            pc[t] # "idle" /\ op[t] \in {"as_ref", "get", "clone"} /\ old[t] # Null
                => acquired[t] /\ heap[old[t]].k = kind[self[t]])
    /\ [][\A t \in Threads :
            CasStep(t) /\ Success(rv'[t])
                => /\ heap[ptr[t]].k = kind[self[t]]
                   /\ heap'[ptr[t]] = heap[ptr[t]]
                   /\ released'[self[t]]]_vars

\* An as_ref has loaded, with acquire, the pointer a store published.
C16_Witness ==
    \E t \in Threads :
        /\ Returned(t, "as_ref") /\ old[t] # Null /\ acquired[t]
        /\ winner[self[t]] = old[t]

\* The atomic accesses of ptr_or_null that method o has made when it is at p.
AccessesAt(o, p) ==
    CASE o \in {"is_none", "is_some", "as_ref", "get", "clone"} -> 1
      [] o \in {"store", "store_value"} -> IF p = "store_cas" THEN 0 ELSE 1
      [] o \in {"swap", "take"} -> IF p = "swap_store" THEN 1 ELSE 2
      [] o \in {"into_inner", "from"} -> IF p = "swap_store" THEN 1 ELSE 4
      [] o = "drop" -> 2
      [] OTHER -> 0

\* C17 as stated: no method makes more than one atomic access of the slot.
C17_Original == \A t \in Threads : accesses[t] <= 1

\* C17 amended: is_none, is_some, as_ref, get, clone, store and store_value
\* make one atomic access of the slot (a load or a compare_exchange); swap
\* and take make two, a load and then a store; the destruction of a cell is a
\* take and makes two; into_inner, and the conversion to MonoArc that starts
\* with it, make the two of their take and the two of the destruction of the
\* cell they consume.
C17_AtomicAccesses == \A t \in Threads : accesses[t] = AccessesAt(op[t], pc[t])

\* A swap of one value for another has made its load and its store.
C17_Witness ==
    \E t \in Threads : Returned(t, "swap") /\ accesses[t] = 2 /\ arg[t] # Null

\* C18: from the load of get or clone to its increment, the allocation whose
\* address it loaded stays in the slot and stays live, whatever handles and
\* other cells holding it are dropped meanwhile: the increment finds an Arc
\* with a strong count of at least 1, and no access to a released allocation
\* ever happens.
C18_IncrementLive ==
    /\ [](~ub)
    /\ [](\A t \in Threads :
            pc[t] \in {"get_inc", "clone_inc"} /\ old[t] # Null
                => /\ ptr_or_null[self[t]] = old[t]
                   /\ heap[old[t]].k = "arc"
                   /\ heap[old[t]].strong >= 1)
    /\ [][\A t \in Threads :
            pc[t] \in {"get_inc", "clone_inc"} /\ Moves(t) /\ old[t] # Null
                => /\ heap[old[t]].k = "arc" /\ heap[old[t]].strong >= 1
                   /\ heap'[old[t]].strong = heap[old[t]].strong + 1]_vars

\* A get has loaded the address of a value that only the cell still owns,
\* after another thread destroyed a clone that held the same value.
C18_Witness ==
    \E t, u \in Threads :
        /\ pc[t] = "get_inc" /\ heap[old[t]].strong = 1
        /\ Returned(u, "drop") /\ before[u] = old[t]

\* The steps method o has still to take when it is at p.
StepsLeft(o, p) ==
    CASE p = "idle" -> 0
      [] p = "ret" -> 1
      [] p = "swap_store" -> IF o = "from" THEN 3 ELSE 2
      [] OTHER -> 2

\* Thread t takes the step.
Acts(t) == pc'[t] # pc[t] \/ accesses'[t] # accesses[t]

\* C19: a store or store_value has made exactly one compare_exchange when
\* it returns, whether it succeeded or failed; every step of a running method
\* brings it one step nearer to its return, which is at most three steps
\* from its call; and the next step of a running method is enabled whatever
\* the state of the other threads.
C19_NoRetryNoWait ==
    /\ [](\A t \in Threads :
            pc[t] = "ret" /\ op[t] \in {"store", "store_value"}
                => accesses[t] = 1 /\ rv[t] \in {"Ok", "Err", "true", "false"})
    /\ [](\A t \in Threads : pc[t] # "idle" => ENABLED Steps(t))
    /\ [][\A t \in Threads :
            Acts(t)
                => IF pc[t] = "idle"
                   THEN StepsLeft(op'[t], pc'[t]) \in 1..3
                   ELSE StepsLeft(op'[t], pc'[t]) = StepsLeft(op[t], pc[t]) - 1]_vars

\* A store has failed after one compare_exchange and is about to return
\* while another thread's store on the same cell has not yet run its own.
C19_Witness ==
    \E t, u \in Threads :
        /\ Returned(t, "store") /\ rv[t] = "Err" /\ accesses[t] = 1
        /\ pc[u] = "store_cas" /\ self[u] = self[t]

\* Thread t's step writes or releases through cell c.
StepOn(t, c) == Acts(t) /\ (self[t] = c \/ self'[t] = c)

\* C20: the cells are independent: a step of a method on one cell (the
\* compare_exchange of a store, the store of a swap or take, a destruction)
\* leaves the slot of every other cell as it is, and the second step of a
\* clone writes only the slot of the new cell; so a store that succeeds on
\* the clone of an empty cell leaves the source empty, and a store that
\* succeeds on the source leaves the clone empty.  A store on a cell that
\* began populated, as the clone of a populated cell does, and has not been
\* emptied by swap or take since, fails.
C20_CloneIndependent ==
    /\ [][\A t \in Threads, c \in Cells :
            StepOn(t, c) /\ op[t] # "clone" /\ op'[t] # "clone"
                => \A d \in Cells \ {c} :
                    ptr_or_null'[d] = ptr_or_null[d] /\ kind'[d] = kind[d]]_vars
    /\ [][\A t \in Threads :
            Acts(t) /\ (op[t] = "clone" \/ op'[t] = "clone")
                => \A d \in Cells :
                    ptr_or_null'[d] # ptr_or_null[d] \/ kind'[d] # kind[d]
                        => d = dst[t] /\ pc[t] = "clone_inc" /\ d # self[t]]_vars
    /\ [][\A t \in Threads :
            CasStep(t) /\ epoch0[self[t]] # Null
                => ~Success(rv'[t]) /\ ptr_or_null' = ptr_or_null]_vars
    /\ [](\A t \in Threads :
            pc[t] = "ret" /\ op[t] \in {"store", "store_value"} /\ Success(rv[t])
                => \A d \in Cells \ {self[t]} :
                    kind[d] # "dead" /\ epoch0[d] = Null /\ okEpoch[d] = 0
                        => ptr_or_null[d] = Null)

\* A store has succeeded on the clone of an empty cell, and the source is
\* still empty.
C20_Witness ==
    \E t \in Threads :
        /\ Returned(t, "store_value") /\ rv[t] = "true" /\ self[t] # SharedCell
        /\ kind[SharedCell] = "arc" /\ ptr_or_null[SharedCell] = Null
        /\ epoch0[SharedCell] = Null /\ okEpoch[SharedCell] = 0

\* The step takes the Box allocation a out of the slot of cell c.
Unslotted(c, a) ==
    /\ kind[c] = "box" /\ ptr_or_null[c] = a
    /\ kind'[c] # "box" \/ ptr_or_null'[c] # a

\* C21: every live Box allocation has exactly one owner: one MonoBox slot,
\* or one handle of a caller, or one handle inside a running method (the
\* argument of store or swap not yet in the slot, the value that store's Err,
\* swap, take or into_inner is about to return); a released one has none.  A
\* step that takes an address out of a slot either hands it, unreleased, to
\* the swap, take or into_inner that runs on the cell, or is the destruction
\* of the cell, which deallocates it.
C21_UniqueOwner ==
    /\ [](\A a \in Addrs :
            heap[a].k = "box"
                => /\ Holders(a) = 1
                   /\ heap[a].strong = 1
                   /\ Cardinality(Holding(a)) <= 1 /\ owned[a] <= 1)
    /\ [](\A a \in Addrs : variant = "box" /\ heap[a].k = "free" => Holders(a) = 0)
    /\ [][\A c \in Cells, a \in Addrs :
            Unslotted(c, a)
                => \E t \in Threads :
                    /\ self'[t] = c
                    /\ \/ /\ pc[t] = "swap_store"
                          /\ op[t] \in {"swap", "take", "into_inner", "from"}
                          /\ out'[t] = a /\ heap'[a] = heap[a] /\ InFlight(t, a)'
                       \/ DropStep(t, c) /\ heap'[a].k = "free"]_vars

\* A swap has put one Box in the slot and is about to return the other.
C21_Witness ==
    \E t \in Threads :
        /\ Returned(t, "swap") /\ variant = "box"
        /\ out[t] # Null /\ arg[t] # Null /\ ptr_or_null[self[t]] = arg[t]
        /\ heap[out[t]].k = "box" /\ heap[arg[t]].k = "box"

\* C22: the strong count of every live Arc allocation is the number of its
\* owners: the MonoArc slots that hold its address, the handles callers hold
\* and the handles inside running methods (arguments on their way in,
\* results on their way out).  Steps that only move ownership (new, store
\* with either result, swap, take, into_inner and every return) leave every
\* count as it is; the increment of a get or clone on a populated cell adds
\* exactly one; the drop of a handle or of a populated cell removes exactly
\* one.
C22_StrongCount ==
    /\ [](\A a \in Addrs :
            heap[a].k = "arc" => heap[a].strong = Holders(a) /\ heap[a].strong >= 1)
    /\ [][\A t \in Threads :
            Acts(t) /\ (op[t] \in {"store", "swap", "take", "into_inner"}
                        \/ op'[t] \in {"store", "swap", "take", "into_inner"}
                        \/ pc[t] = "ret")
                => heap' = heap]_vars
    /\ [][(\A t \in Threads : ~Acts(t)) /\ kind' # kind => heap' = heap]_vars
    /\ [][\A t \in Threads :
            pc[t] \in {"get_inc", "clone_inc"} /\ Acts(t) /\ old[t] # Null
                => /\ heap'[old[t]].strong = heap[old[t]].strong + 1
                   /\ \A b \in Addrs \ {old[t]} : heap'[b] = heap[b]]_vars
    /\ [][\A t \in Threads, c \in Cells :
            DropStep(t, c) /\ kind[c] = "arc" /\ ptr_or_null[c] # Null
                => ReleasedOnce(heap, heap', ptr_or_null[c])]_vars
    /\ [][\A a \in Addrs :
            heap[a].k = "arc" /\ owned'[a] < owned[a] /\ kind' = kind
                /\ (\A t \in Threads : ~Acts(t))
                => ReleasedOnce(heap, heap', a)]_vars

\* A value has three owners: the cell, a clone of the cell and a handle a
\* get returned to the caller.
C22_Witness ==
    \E a \in Addrs :
        /\ heap[a].k = "arc" /\ heap[a].strong = 3
        /\ owned[a] = 1 /\ Cardinality(Holding(a)) = 2

\* C23: the compare_exchange of a store_value succeeds exactly when the slot
\* is null; then store_value returns true, the slot holds the allocation it
\* made and the heap is unchanged; otherwise it returns false, the slot is
\* unchanged, and the allocation it made is released once, which deallocates
\* it.  Until its compare_exchange that allocation is owned by the call alone
\* and is in no slot.
C23_StoreValue ==
    /\ [][\A t \in Threads :
            CasStep(t) /\ op[t] = "store_value"
                => IF ptr_or_null[self[t]] = Null
                   THEN /\ rv'[t] = "true"
                        /\ ptr_or_null'[self[t]] = ptr[t]
                        /\ heap' = heap
                   ELSE /\ rv'[t] = "false"
                        /\ ptr_or_null' = ptr_or_null
                        /\ ReleasedOnce(heap, heap', ptr[t])
                        /\ heap'[ptr[t]].k = "free"]_vars
    /\ [](\A t \in Threads :
            pc[t] = "store_cas" /\ op[t] = "store_value"
                => /\ heap[ptr[t]].k = kind[self[t]]
                   /\ heap[ptr[t]].strong = 1
                   /\ owned[ptr[t]] = 0
                   /\ Holding(ptr[t]) = {})
    /\ [](\A t \in Threads :
            Returned(t, "store_value")
                => /\ rv[t] \in {"true", "false"}
                   /\ rv[t] = "true" <=> before[t] = Null
                   /\ rv[t] = "true" => ptr_or_null[self[t]] = arg[t]
                   /\ rv[t] = "false" => ptr_or_null[self[t]] = before[t]
                   /\ out[t] = Null)

\* A store_value has failed: the allocation it made is gone and the slot
\* holds what it held.
C23_Witness ==
    \E t \in Threads :
        /\ Returned(t, "store_value") /\ rv[t] = "false"
        /\ heap[arg[t]].k = "free" /\ ptr_or_null[self[t]] = before[t]

====
